---- MODULE Spec2Model ----
(***************************************************************************)
(* Research dossier web application: the job state machine of the          *)
(* research pipeline (webapp/backend/app/services/research.py), the job    *)
(* endpoints (webapp/backend/app/api/research.py) and the credit purchase  *)
(* webhook (webapp/backend/app/api/payments.py), over one shared database. *)
(*                                                                         *)
(* Granularity.  Every handler runs in its own SQLAlchemy session.  An     *)
(* attribute update such as "user.credits -= cost" is computed in Python   *)
(* on the value the session loaded and is written back as an absolute      *)
(* value by the UPDATE the commit flushes.  The model therefore splits a   *)
(* handler at its database statements: what a session has read (a          *)
(* snapshot) is kept in the handler's record, and the commit writes from   *)
(* it.  run_research_pipeline is a synchronous background task and runs    *)
(* in a worker thread next to the request handlers.                        *)
(*                                                                         *)
(* Exceptions.  Inside run_research_pipeline every script call is wrapped  *)
(* (run_script never raises), so the exceptions that can reach the         *)
(* "except Exception" clause come from the explicit database calls         *)
(* (db.query, db.commit) and from creating the output directories.  Each   *)
(* of these calls either succeeds or raises; a commit that raises          *)
(* persists nothing.                                                       *)
(*                                                                         *)
(* Scripts.  The retry executors of execution/search_web.py and            *)
(* execution/fetch_news.py (RetrySpec) and the merge, de-duplication,      *)
(* sort and truncation of fetch_news (NewsSpec) are specified on their     *)
(* own, with the web application at rest; so are search_web with its       *)
(* fallback (SearchSpec) and execution/fetch_financials.py (FinSpec).      *)
(*                                                                         *)
(* Other handlers.  The reads and the delete of a job by any caller        *)
(* (AccessSpec) start from the rows a deployment can hold.  The password   *)
(* reset of webapp/backend/app/api/auth.py with the cache of               *)
(* webapp/backend/app/core/redis.py behind it is AuthSpec.                 *)
(***************************************************************************)
EXTENDS Integers, Sequences, FiniteSets, TLC

\* ------------------------------------------------------------------ bounds
Users == {"u1"}
Reqs == {"r1", "r2"}          \* create_research_job requests; a job's id is its request
Pays == {"p1"}                \* checkout sessions
Workers == {"w1"}             \* threads that run background tasks
MaxTime == 60                 \* the clock runs from 0 to MaxTime
TickSeconds == 60             \* seconds per clock step
\* The request bodies: target (a sequence of characters), target_type, depth.
Requests == { [target |-> <<"a">>, target_type |-> "company", depth |-> "standard"],
              [target |-> <<" ", "a">>, target_type |-> "person", depth |-> "quick"] }
Tiers == {"standard"}
Tokens == {"t1", "t2"}        \* the values generate_token can return
Emails == {"a@x", "d@x", "n@x"}  \* an active account, a disabled one, no account
MaxMinutes == 90              \* the auth clock stops here
TickMinutes == 30
MaxUses == 2                  \* resets counted per token
MaxQuotes == 2                \* quotes in one answer of the ticker search
MaxRetriesFlag == 7           \* --retries is drawn from 0..MaxRetriesFlag
\* random.uniform(0, delay * 0.1), as a percentage of the delay
JitterPercents == {0, 5, 10}
MaxArticles == 3              \* deduplicate_news is applied to lists of 0..MaxArticles articles
MaxResults == 1               \* max_results is drawn from 0..MaxResults
\* The callers of delete_research_job: the users and one more account.
Callers == Users \cup {"u2"}

\* ------------------------------------------------------- program constants
DUPLICATE_JOB_WINDOW_SECONDS == 60
credit_cost_quick == 1
credit_cost_standard == 2
credit_cost_deep == 4
MaxPages == 8
HTTP_201_CREATED == 201
HTTP_402_PAYMENT_REQUIRED == 402
HTTP_409_CONFLICT == 409
HTTP_204_NO_CONTENT == 204
HTTP_400_BAD_REQUEST == 400
HTTP_404_NOT_FOUND == 404
HTTP_200_OK == 200
SignupCredits == 1             \* credits=1: the free credit of a new user
HTTP_401_UNAUTHORIZED == 401
PASSWORD_RESET_EXPIRE_MINUTES == 60

MAX_RETRIES == 3              \* module default of search_web.py and fetch_news.py
BASE_DELAY == 2               \* seconds
MAX_DELAY == 30               \* seconds
TitleKeyLen == 50             \* title_key = ...[:50]

NULL == -1                    \* a NULL column / None

VARIABLES
    credits,      \* users.credits, persisted
    jobs,         \* research_jobs rows, persisted
    payments,     \* payments rows, persisted
    now,          \* datetime.utcnow()
    req,          \* create_research_job handlers
    pl,           \* run_research_pipeline tasks
    wd,           \* the working directory of each job
    ran,          \* the run_script calls each task has made, in order
    whk,          \* stripe_webhook handlers
    env,          \* the environment the scripts run in
    ledger,       \* history: initial balance - debits + refunds + purchases committed
    refunds,      \* history: number of committed refunds of each job
    dresp,        \* the response delete_research_job, or a webhook delivery that
                  \* found nothing to do, is returning in this step, if any
    rx,           \* a run of search_web.py / fetch_news.py in its retry executor
    nw,           \* a call of fetch_news
    rd,           \* the response to a get, download or delete of a research job
    au,           \* the reset tokens, the cache behind them and the last auth response
    fin,          \* a run of fetch_financials.py
    sw            \* a call of search_web

appvars == <<credits, jobs, payments, now, req, pl, wd, ran, whk, env, ledger, refunds, dresp>>
sidevars == <<rd, au, fin, sw>>
vars == <<credits, jobs, payments, now, req, pl, wd, ran, whk, env, ledger, refunds, dresp, rx, nw,
          rd, au, fin, sw>>

\* ------------------------------------------------------------------ helpers
Min(a, b) == IF a < b THEN a ELSE b
Max0(a) == IF a < 0 THEN 0 ELSE a

RECURSIVE LStrip(_)
LStrip(s) == IF s # <<>> /\ Head(s) = " " THEN LStrip(Tail(s)) ELSE s

RECURSIVE RStrip(_)
RStrip(s) == IF s # <<>> /\ s[Len(s)] = " " THEN RStrip(SubSeq(s, 1, Len(s) - 1)) ELSE s

\* str.strip()
Strip(s) == RStrip(LStrip(s))

\* PRICING_TIERS[tier]["credits"]
TierCredits(tier) ==
    CASE tier = "starter" -> 1
      [] tier = "standard" -> 5
      [] tier = "pro" -> 20
      [] tier = "business" -> 50

\* get_credit_cost
get_credit_cost(depth) ==
    CASE depth = "quick" -> credit_cost_quick
      [] depth = "standard" -> credit_cost_standard
      [] depth = "deep" -> credit_cost_deep
      [] OTHER -> credit_cost_standard

\* ------------------------------------------------------------------- rows
NoJob == [status |-> "none", user_id |-> "", target |-> <<>>, target_type |-> "",
          depth |-> "", credits_used |-> 0, report_path |-> "",
          error_message |-> "", created_at |-> NULL]

NoPayment == [status |-> "none", user_id |-> "", credits_purchased |-> 0]

IdleReq == [pc |-> "idle", user |-> "", target |-> <<>>, target_type |-> "",
            depth |-> "", cur |-> NULL, resp |-> 0]

IdleTask == [pc |-> "idle", st |-> "", path |-> "", err |-> "", snap |-> NULL,
             raised |-> FALSE, mail |-> ""]

NoDir == [exists |-> FALSE, files |-> {}, pages |-> 0]

IdleHook == [pc |-> "idle", snap |-> NULL, added |-> 0]

Terminal == {"completed", "failed"}
NoResponse == 0
\* No script is running.
IdleRetry ==
    [pc |-> "idle", script |-> "", flag |-> 0, func |-> "", n |-> 0, firstOk |-> 0,
     attempt |-> 0, calls |-> 0, sleeps |-> 0, prev |-> NULL, last |-> NULL,
     prevDelay |-> NULL, lastDelay |-> NULL, perm |-> FALSE, result |-> NULL]
\* fetch_news is not being called.
IdleNews ==
    [pc |-> "idle", articles |-> <<>>, once |-> <<>>, twice |-> <<>>,
     max_results |-> 0, all |-> <<>>, num_results |-> 0, out |-> <<>>]

\* No get, download or delete response is on its way.
IdleRead == [op |-> "", caller |-> "", job |-> "", owner |-> "", code |-> NoResponse,
             disclosed |-> {}]

\* No entry under a cache key.
NoEntry == [value |-> "", expiry |-> NULL]

\* The auth state of a fresh process: no redis_url, no client, both stores
\* empty, no token issued, no response.
IdleAuth ==
    [clock |-> 0, url |-> FALSE, client |-> FALSE,
     redis |-> [t \in Tokens |-> NoEntry], mem |-> [t \in Tokens |-> NoEntry],
     issued |-> [t \in Tokens |-> NULL], used |-> [t \in Tokens |-> 0],
     accepted |-> [t \in Tokens |-> NULL],
     resp |-> [op |-> "", email |-> "", code |-> NoResponse, body |-> ""]]

\* fetch_financials.py is not running.
IdleFin ==
    [pc |-> "idle", mode |-> "", arg |-> "", ticker |-> "", company |-> "",
     requests |-> FALSE, net |-> "", quotes |-> <<>>,
     search_result |-> [found |-> FALSE, ticker |-> ""], searched |-> FALSE,
     fetched |-> 0, result |-> [success |-> FALSE, error |-> "", ticker |-> ""],
     exit |-> NULL, raised |-> FALSE]

\* search_web is not being called.
IdleSearch ==
    [pc |-> "idle", HAS_DDGS |-> FALSE, HAS_REQUESTS |-> FALSE, calls |-> <<>>,
     primary |-> <<>>, results |-> <<>>]

SideQuiet == rd = IdleRead /\ au = IdleAuth /\ fin = IdleFin /\ sw = IdleSearch

\* ------------------------------------------------------------ run_script
Scripts == {"search_web.py", "fetch_webpage.py", "fetch_news.py", "fetch_wikipedia.py",
            "fetch_financials.py", "fetch_sec_edgar.py", "fetch_social.py",
            "analyze_research.py", "generate_dossier.py", "generate_dossier_llm.py",
            "md_to_styled_html.py"}

\* The data-gathering stages other than the search.
OtherGather == {"fetch_webpage.py", "fetch_news.py", "fetch_wikipedia.py",
                "fetch_financials.py", "fetch_sec_edgar.py", "fetch_social.py"}

Generators == {"generate_dossier.py", "generate_dossier_llm.py"}

\* What can happen to one script call.
Outcomes == {"ok", "missing", "nonzero", "timeout", "exception"}

\* run_script: the dict it returns for each outcome of the call; it never raises.
run_script(outcome) ==
    CASE outcome = "ok" -> [success |-> TRUE, error |-> ""]
      [] outcome = "missing" -> [success |-> FALSE, error |-> "Script not found"]
      [] outcome = "nonzero" -> [success |-> FALSE, error |-> "Script failed"]
      [] outcome = "timeout" -> [success |-> FALSE, error |-> "Script timed out"]
      [] outcome = "exception" -> [success |-> FALSE, error |-> "str(e)"]

\* The environment of the deployment: the outcome of every script, the number of
\* usable result urls the search returned, and whether an OpenAI key is set.
EnvOf(failing, kind, urls, llm) ==
    [out |-> [s \in Scripts |-> IF s \in failing THEN kind ELSE "ok"],
     urls |-> urls, llm |-> llm]

StageEnvs ==
    { EnvOf({"fetch_financials.py", "md_to_styled_html.py"}, "exception", MaxPages + 1, FALSE),
      EnvOf(OtherGather \cup {"analyze_research.py"}, "nonzero", 1, TRUE),
      EnvOf(Generators \cup {"fetch_news.py"}, "missing", 2, FALSE),
      EnvOf(Scripts, "timeout", 0, TRUE) }

\* ------------------------------------------------------------------- Init
Init ==
    /\ credits = [u \in Users |-> SignupCredits]
    /\ ledger = credits
    /\ jobs = [j \in Reqs |-> NoJob]
    /\ payments = [p \in Pays |-> NoPayment]
    /\ now = 0
    /\ req = [r \in Reqs |-> IdleReq]
    /\ pl = [j \in Reqs |-> IdleTask]
    /\ wd = [j \in Reqs |-> NoDir]
    /\ ran = [j \in Reqs |-> <<>>]
    /\ whk = [p \in Pays |-> IdleHook]
    /\ env \in StageEnvs
    /\ refunds = [j \in Reqs |-> 0]
    /\ dresp = NoResponse
    /\ rx = IdleRetry
    /\ nw = IdleNews
    /\ SideQuiet

\* ----------------------------------------------------------------- clock
Tick ==
    /\ now < MaxTime
    /\ now' = Min(now + TickSeconds, MaxTime)
    /\ UNCHANGED <<credits, jobs, payments, req, pl, wd, ran, whk, env, ledger, refunds>>
    /\ dresp = NoResponse
    /\ UNCHANGED <<dresp, rx, nw, sidevars>>

\* ------------------------------------------------------------ event loop
\* create_research_job and stripe_webhook are coroutines of one event loop and
\* do not await between loading their rows and their commit: while one of them
\* is between the two, no other coroutine runs.  The pipeline tasks run in
\* worker threads and are not held back.
LoopFree ==
    /\ \A k \in Reqs : req[k].pc # "checked"
    /\ \A p \in Pays : whk[p].pc # "loaded"

\* ------------------------------------------------ create_research_job
\* Mutant: the credit check is off by one.
InsufficientCredits_OffByOne(cur, cost) == cur + 1 < cost

\* current_user.credits < credit_cost
InsufficientCredits(cur, cost) == cur < cost

\* The duplicate query: a row of the caller with the stripped target, the same
\* target type and created_at after the cutoff.
ExistingJob(u, target, tt) ==
    \E k \in Reqs :
        /\ jobs[k].status # "none"
        /\ jobs[k].user_id = u
        /\ jobs[k].target = Strip(target)
        /\ jobs[k].target_type = tt
        /\ jobs[k].created_at > now - DUPLICATE_JOB_WINDOW_SECONDS

\* The request arrives: get_current_active_user loads the caller's row, then
\* the credit check and the duplicate check.
ReqCheck(r) ==
    /\ req[r].pc = "idle"
    /\ LoopFree
    /\ \E u \in Users, b \in Requests :
          LET q == [pc |-> "checked", user |-> u, target |-> b.target,
                    target_type |-> b.target_type, depth |-> b.depth,
                    cur |-> credits[u], resp |-> 0]
              cost == get_credit_cost(b.depth)
          IN  req' = [req EXCEPT ![r] =
                   IF InsufficientCredits(q.cur, cost)
                   THEN [q EXCEPT !.pc = "done", !.resp = HTTP_402_PAYMENT_REQUIRED]
                   ELSE IF ExistingJob(u, b.target, b.target_type)
                   THEN [q EXCEPT !.pc = "done", !.resp = HTTP_409_CONFLICT]
                   ELSE q]
    /\ UNCHANGED <<credits, jobs, payments, now, pl, wd, ran, whk, env, ledger, refunds>>
    /\ dresp = NoResponse
    /\ UNCHANGED <<dresp, rx, nw, sidevars>>

\* The debit, the new row, the commit and the scheduling of the task.
ReqCommit(r) ==
    /\ req[r].pc = "checked"
    /\ LET q == req[r]
           cost == get_credit_cost(q.depth)
       IN  /\ credits' = [credits EXCEPT ![q.user] = q.cur - cost]
           /\ ledger' = [ledger EXCEPT ![q.user] = @ - cost]
           /\ jobs' = [jobs EXCEPT ![r] =
                  [NoJob EXCEPT !.status = "pending", !.user_id = q.user,
                                !.target = q.target, !.target_type = q.target_type,
                                !.depth = q.depth, !.credits_used = cost,
                                !.created_at = now]]
           /\ pl' = [pl EXCEPT ![r] = [IdleTask EXCEPT !.pc = "queued"]]
           /\ req' = [req EXCEPT ![r] = [q EXCEPT !.pc = "done", !.resp = HTTP_201_CREATED]]
    /\ UNCHANGED <<payments, now, wd, ran, whk, env, refunds>>
    /\ dresp = NoResponse
    /\ UNCHANGED <<dresp, rx, nw, sidevars>>

\* Mutant: once a script has failed, the later stages are not run.
Stage_AbortAfterFailure(ws, script, file, e) ==
    IF \E i \in 1..Len(ws.ran) : e.out[ws.ran[i]] # "ok"
    THEN ws
    ELSE LET res == run_script(e.out[script])
         IN  [ws EXCEPT !.ran = Append(@, script),
                        !.files = IF res.success THEN @ \cup {file} ELSE @]

\* One stage: call the script; its artifact exists afterwards if the call
\* succeeded.  The returned dict is not looked at by the pipeline.
Stage(ws, script, file, e) ==
    LET res == run_script(e.out[script])
    IN  [ws EXCEPT !.ran = Append(@, script),
                   !.files = IF res.success THEN @ \cup {file} ELSE @]

\* Phase 1.5: fetch the top pages, at most MaxPages of them, if the search
\* file exists.
RECURSIVE FetchPages(_, _, _)
FetchPages(ws, left, e) ==
    IF left = 0 \/ ws.fetched >= MaxPages THEN ws
    ELSE LET res == run_script(e.out["fetch_webpage.py"])
         IN  FetchPages([ws EXCEPT !.ran = Append(@, "fetch_webpage.py"),
                                   !.pages = IF res.success THEN @ + 1 ELSE @,
                                   !.fetched = @ + 1],
                        left - 1, e)

StagePages(ws, e) ==
    IF "01_search_results.json" \in ws.files THEN FetchPages(ws, e.urls, e) ELSE ws

\* Phase 4: financials and filings, for companies only.
StageFinancials(ws, tt, e) ==
    IF tt = "company"
    THEN Stage(Stage(ws, "fetch_financials.py", "05_financials.json", e),
               "fetch_sec_edgar.py", "08_sec_edgar.json", e)
    ELSE ws

\* Phase 7: the dossier generator, LLM-powered if a key is configured.
StageDossier(ws, e) ==
    IF e.llm THEN Stage(ws, "generate_dossier_llm.py", "DOSSIER.md", e)
    ELSE Stage(ws, "generate_dossier.py", "DOSSIER.md", e)

\* Phase 8: the HTML conversion, if the markdown dossier exists.
StageHtml(ws, e) ==
    IF "DOSSIER.md" \in ws.files THEN Stage(ws, "md_to_styled_html.py", "REPORT.html", e)
    ELSE ws

EmptyWs == [files |-> {}, pages |-> 0, fetched |-> 0, ran |-> <<>>]

\* Mutant: the analysis is run before the social stage.
RunStages_AnalysisBeforeSocial(tt, e) ==
    LET s1 == Stage(EmptyWs, "search_web.py", "01_search_results.json", e)
        s2 == StagePages(s1, e)
        s3 == Stage(s2, "fetch_news.py", "04_news.json", e)
        s4 == Stage(s3, "fetch_wikipedia.py", "07_wikipedia.json", e)
        s5 == StageFinancials(s4, tt, e)
        s6 == Stage(s5, "analyze_research.py", "09_analysis.json", e)
        s7 == Stage(s6, "fetch_social.py", "06_social.json", e)
        s8 == StageDossier(s7, e)
    IN  StageHtml(s8, e)

\* Phases 1 to 8 in the order of the code.
RunStages(tt, e) ==
    LET s1 == Stage(EmptyWs, "search_web.py", "01_search_results.json", e)
        s2 == StagePages(s1, e)
        s3 == Stage(s2, "fetch_news.py", "04_news.json", e)
        s4 == Stage(s3, "fetch_wikipedia.py", "07_wikipedia.json", e)
        s5 == StageFinancials(s4, tt, e)
        s6 == Stage(s5, "fetch_social.py", "06_social.json", e)
        s7 == Stage(s6, "analyze_research.py", "09_analysis.json", e)
        s8 == StageDossier(s7, e)
    IN  StageHtml(s8, e)

\* The artifact each script is told to write (its --output, or its default
\* in the research directory).
Writes(script) ==
    CASE script = "search_web.py" -> "01_search_results.json"
      [] script = "fetch_webpage.py" -> "03_pages"
      [] script = "fetch_news.py" -> "04_news.json"
      [] script = "fetch_wikipedia.py" -> "07_wikipedia.json"
      [] script = "fetch_financials.py" -> "05_financials.json"
      [] script = "fetch_sec_edgar.py" -> "08_sec_edgar.json"
      [] script = "fetch_social.py" -> "06_social.json"
      [] script = "analyze_research.py" -> "09_analysis.json"
      [] script \in {"generate_dossier.py", "generate_dossier_llm.py"} -> "DOSSIER.md"
      [] script = "md_to_styled_html.py" -> "REPORT.html"

\* The files of the research directory a stage reads: the page fetch is fed
\* from the search file by the pipeline, the analysis and the dossier
\* generators load the files they name, the conversion gets the dossier.
Reads(script) ==
    CASE script = "fetch_webpage.py" -> {"01_search_results.json"}
      [] script = "analyze_research.py" ->
            {"01_search_results.json", "02_sources.json", "04_news.json",
             "05_financials.json", "06_social.json", "03_pages"}
      [] script = "generate_dossier.py" ->
            {"01_search_results.json", "04_news.json", "05_financials.json",
             "06_social.json", "09_analysis.json", "07_analysis.json"}
      [] script = "generate_dossier_llm.py" ->
            {"01_search_results.json", "03_pages", "04_news.json", "05_financials.json",
             "06_social.json", "07_wikipedia.json"}
      [] script = "md_to_styled_html.py" -> {"DOSSIER.md"}
      [] OTHER -> {}

\* The place of a script in the text of run_research_pipeline.
StageRank(script) ==
    CASE script = "search_web.py" -> 1
      [] script = "fetch_webpage.py" -> 2
      [] script = "fetch_news.py" -> 3
      [] script = "fetch_wikipedia.py" -> 4
      [] script = "fetch_financials.py" -> 5
      [] script = "fetch_sec_edgar.py" -> 6
      [] script = "fetch_social.py" -> 7
      [] script = "analyze_research.py" -> 8
      [] script \in {"generate_dossier.py", "generate_dossier_llm.py"} -> 9
      [] script = "md_to_styled_html.py" -> 10

\* Mutant: no fallback to the markdown dossier.
ReportCheck_NoFallback(files) ==
    IF "REPORT.html" \in files
    THEN [st |-> "completed", path |-> "REPORT.html", err |-> ""]
    ELSE [st |-> "failed", path |-> "", err |-> "Failed to generate report"]

\* The status, report path and error message the final check chooses.
ReportCheck(files) ==
    IF "REPORT.html" \in files
    THEN [st |-> "completed", path |-> "REPORT.html", err |-> ""]
    ELSE IF "DOSSIER.md" \in files
    THEN [st |-> "completed", path |-> "DOSSIER.md", err |-> ""]
    ELSE [st |-> "failed", path |-> "", err |-> "Failed to generate report"]

\* Mutant: the refund is forgotten.
RefundedBalance_NoRefund(snap, used) == snap

\* user.credits += job.credits_used, on the value the session loaded
RefundedBalance(snap, used) == snap + used

\* ------------------------------------------------- run_research_pipeline
\* The task returns: its locals are gone.
Return(t) == [IdleTask EXCEPT !.pc = "done", !.raised = t.raised]

\* Entering the except clause.
Raise(t) == [t EXCEPT !.pc = "except", !.raised = TRUE, !.st = "", !.path = "",
                      !.err = "", !.snap = NULL]

\* The tasks a worker thread is running.
Running == {k \in Reqs : pl[k].pc \notin {"idle", "queued", "done"}}

\* A free worker thread takes the task: load the job and mark it processing.
PipeStart(j) ==
    /\ pl[j].pc = "queued"
    /\ Cardinality(Running) < Cardinality(Workers)
    /\ \E fault \in BOOLEAN :
          IF fault
          THEN /\ pl' = [pl EXCEPT ![j] = Raise(@)]
               /\ jobs' = jobs
          ELSE IF jobs[j].status = "none"
          THEN /\ pl' = [pl EXCEPT ![j] = Return(@)]
               /\ jobs' = jobs
          ELSE /\ jobs' = [jobs EXCEPT ![j].status = "processing"]
               /\ pl' = [pl EXCEPT ![j].pc = "run"]
    /\ UNCHANGED <<credits, payments, now, req, wd, ran, whk, env, ledger, refunds>>
    /\ dresp = NoResponse
    /\ UNCHANGED <<dresp, rx, nw, sidevars>>

\* Create the working directory, run phases 1 to 8 and make the final check:
\* choose the status and, on failure, load the owner for the refund.
PipeRun(j) ==
    /\ pl[j].pc = "run"
    /\ \E fault \in {"none", "output_dir", "pages_dir", "query"} :
          LET ws == RunStages(req[j].target_type, env)
              s1 == Stage(EmptyWs, "search_web.py", "01_search_results.json", env)
              c == ReportCheck(ws.files)
          IN  CASE fault = "output_dir" ->
                      /\ pl' = [pl EXCEPT ![j] = Raise(@)]
                      /\ UNCHANGED <<wd, ran>>
                [] fault = "pages_dir" ->
                      /\ pl' = [pl EXCEPT ![j] = Raise(@)]
                      /\ wd' = [wd EXCEPT ![j] = [exists |-> TRUE, files |-> s1.files,
                                                  pages |-> 0]]
                      /\ ran' = [ran EXCEPT ![j] = s1.ran]
                [] OTHER ->
                      /\ wd' = [wd EXCEPT ![j] = [exists |-> TRUE, files |-> ws.files,
                                                  pages |-> ws.pages]]
                      /\ ran' = [ran EXCEPT ![j] = ws.ran]
                      /\ IF fault = "query" /\ c.st = "failed"
                         THEN pl' = [pl EXCEPT ![j] = Raise(@)]
                         ELSE pl' = [pl EXCEPT ![j] =
                                   [@ EXCEPT !.pc = "commit", !.st = c.st, !.path = c.path,
                                             !.err = c.err,
                                             !.snap = IF c.st = "failed"
                                                      THEN credits[jobs[j].user_id]
                                                      ELSE NULL]]
    /\ UNCHANGED <<credits, jobs, payments, now, req, whk, env, ledger, refunds>>
    /\ dresp = NoResponse
    /\ UNCHANGED <<dresp, rx, nw, sidevars>>

\* Mutant: on failure the refund is committed first and the status in a second
\* commit.
PipeCommit_RefundFirst(j) ==
    /\ pl[j].pc = "commit"
    /\ LET t == pl[j]
           u == jobs[j].user_id
           used == jobs[j].credits_used
       IN  IF t.st = "failed" /\ t.snap # NULL
           THEN /\ credits' = [credits EXCEPT ![u] = RefundedBalance(t.snap, used)]
                /\ ledger' = [ledger EXCEPT ![u] = @ + used]
                /\ refunds' = [refunds EXCEPT ![j] = @ + 1]
                /\ pl' = [pl EXCEPT ![j].snap = NULL]
                /\ jobs' = jobs
           ELSE /\ jobs' = [jobs EXCEPT ![j].status = t.st, ![j].report_path = t.path,
                                        ![j].error_message = t.err]
                /\ pl' = [pl EXCEPT ![j] = IF t.st = "completed"
                                            THEN [@ EXCEPT !.pc = "notify"]
                                            ELSE Return(@)]
                /\ UNCHANGED <<credits, ledger, refunds>>
    /\ UNCHANGED <<payments, now, req, wd, ran, whk, env>>
    /\ dresp = NoResponse
    /\ UNCHANGED <<dresp, rx, nw, sidevars>>

\* The commit of the final status, and of the refund with it.
PipeCommit(j) ==
    /\ pl[j].pc = "commit"
    /\ \E fault \in BOOLEAN :
          IF fault
          THEN /\ pl' = [pl EXCEPT ![j] = Raise(@)]
               /\ UNCHANGED <<jobs, credits, ledger, refunds>>
          ELSE LET t == pl[j]
                   u == jobs[j].user_id
                   used == jobs[j].credits_used
               IN  /\ jobs' = [jobs EXCEPT ![j].status = t.st, ![j].report_path = t.path,
                                           ![j].error_message = t.err]
                   /\ pl' = [pl EXCEPT ![j] = IF t.st = "completed"
                                               THEN [@ EXCEPT !.pc = "notify"]
                                               ELSE Return(@)]
                   /\ IF t.st = "failed"
                      THEN /\ credits' = [credits EXCEPT ![u] = RefundedBalance(t.snap, used)]
                           /\ ledger' = [ledger EXCEPT ![u] = @ + used]
                           /\ refunds' = [refunds EXCEPT ![j] = @ + 1]
                      ELSE UNCHANGED <<credits, ledger, refunds>>
    /\ UNCHANGED <<payments, now, req, wd, ran, whk, env>>
    /\ dresp = NoResponse
    /\ UNCHANGED <<dresp, rx, nw, sidevars>>

\* What send_report_ready_email does: the email goes out, send_email returns
\* False (no key, a status other than 200, a caught transport error), or the
\* call raises.
EmailOutcomes == {"sent", "false", "raised"}

\* Mutant: an exception of the email call reaches the outer except clause.
EmailCaught_OnlyFalse(email) == email # "raised"

\* try: send_report_ready_email(job, user) / except Exception: print(...)
\* The returned value is not looked at, an exception is caught.
EmailCaught(email) == email \in EmailOutcomes

\* The notification of a completed job: load the owner (the query may raise,
\* outside the inner try), send the email; a failure of the email is caught.
\* mail records what the email call did.
PipeNotify(j) ==
    /\ pl[j].pc = "notify"
    /\ \E fault \in BOOLEAN, email \in EmailOutcomes :
          IF fault THEN pl' = [pl EXCEPT ![j] = Raise(@)]
          ELSE IF EmailCaught(email)
          THEN pl' = [pl EXCEPT ![j] = [Return(@) EXCEPT !.mail = email]]
          ELSE pl' = [pl EXCEPT ![j] = [Raise(@) EXCEPT !.mail = email]]
    /\ UNCHANGED <<credits, jobs, payments, now, req, wd, ran, whk, env, ledger, refunds>>
    /\ dresp = NoResponse
    /\ UNCHANGED <<dresp, rx, nw, sidevars>>

\* The except clause: load the job again and its owner.
PipeExceptLoad(j) ==
    /\ pl[j].pc = "except"
    /\ \E fault \in BOOLEAN :
          IF fault \/ jobs[j].status = "none"
          THEN pl' = [pl EXCEPT ![j] = Return(@)]
          ELSE pl' = [pl EXCEPT ![j].pc = "except_commit",
                                ![j].snap = credits[jobs[j].user_id]]
    /\ UNCHANGED <<credits, jobs, payments, now, req, wd, ran, whk, env, ledger, refunds>>
    /\ dresp = NoResponse
    /\ UNCHANGED <<dresp, rx, nw, sidevars>>

\* The except clause: mark the job failed, refund, commit.
PipeExceptCommit(j) ==
    /\ pl[j].pc = "except_commit"
    /\ \E fault \in BOOLEAN :
          IF fault \/ jobs[j].status = "none"
          THEN /\ pl' = [pl EXCEPT ![j] = Return(@)]
               /\ UNCHANGED <<jobs, credits, ledger, refunds>>
          ELSE LET u == jobs[j].user_id
                   used == jobs[j].credits_used
               IN  /\ jobs' = [jobs EXCEPT ![j].status = "failed",
                                           ![j].error_message = "str(e)"]
                   /\ credits' = [credits EXCEPT ![u] = RefundedBalance(pl[j].snap, used)]
                   /\ ledger' = [ledger EXCEPT ![u] = @ + used]
                   /\ refunds' = [refunds EXCEPT ![j] = @ + 1]
                   /\ pl' = [pl EXCEPT ![j] = Return(@)]
    /\ UNCHANGED <<payments, now, req, wd, ran, whk, env>>
    /\ dresp = NoResponse
    /\ UNCHANGED <<dresp, rx, nw, sidevars>>

\* ------------------------------------------------- delete_research_job
\* Mutant: only a processing job is protected from deletion.
DeleteRefused_OnlyProcessing(status) == status = "processing"

\* if job.status in ["pending", "processing"]
DeleteRefused(status) == status \in {"pending", "processing"}

\* The response of the handler for caller u and job j in the current state.
DeleteResponse(u, j) ==
    IF jobs[j].status = "none" \/ jobs[j].user_id # u THEN HTTP_404_NOT_FOUND
    ELSE IF DeleteRefused(jobs[j].status) THEN HTTP_400_BAD_REQUEST
    ELSE HTTP_204_NO_CONTENT

\* Caller u asks to delete job j.  A job of another user, or no job, is not
\* found; an unfinished job is refused; otherwise the row is deleted, and the
\* research directory with it when the report file exists.
DeleteBy(u, j) ==
    /\ LoopFree
    /\ dresp = NoResponse
    /\ dresp' = DeleteResponse(u, j)
    /\ IF DeleteResponse(u, j) = HTTP_204_NO_CONTENT
       THEN /\ wd' = [wd EXCEPT ![j] =
                        IF jobs[j].report_path # "" /\ jobs[j].report_path \in wd[j].files
                        THEN NoDir ELSE @]
            /\ jobs' = [jobs EXCEPT ![j] = NoJob]
       ELSE UNCHANGED <<wd, jobs>>
    /\ UNCHANGED <<credits, payments, now, req, pl, ran, whk, env, ledger, refunds, rx, nw, sidevars>>

Delete(j) == \E u \in Callers : DeleteBy(u, j)

\* The response goes out to the caller.
DeleteReturn ==
    /\ dresp \notin {NoResponse, HTTP_200_OK}
    /\ dresp' = NoResponse
    /\ UNCHANGED <<credits, jobs, payments, now, req, pl, wd, ran, whk, env, ledger, refunds, rx, nw, sidevars>>

\* ------------------------------------------- create_checkout, stripe_webhook
\* A checkout session is created and its pending payment row is stored.
Checkout(p) ==
    /\ LoopFree
    /\ payments[p].status = "none"
    /\ \E u \in Users, tier \in Tiers :
          payments' = [payments EXCEPT ![p] =
              [status |-> "pending", user_id |-> u, credits_purchased |-> TierCredits(tier)]]
    /\ UNCHANGED <<credits, jobs, now, req, pl, wd, ran, whk, env, ledger, refunds>>
    /\ dresp = NoResponse
    /\ UNCHANGED <<dresp, rx, nw, sidevars>>

\* Mutant: the status of the payment is not looked at.
HookApplies_AnyStatus(payment_status) == TRUE

\* if payment and payment.status == "pending"
HookApplies(payment_status) == payment_status = "pending"

\* checkout.session.completed arrives for the checkout session of payment p:
\* find the payment; if it is pending, load its user; if not, nothing is
\* written and {"status": "success"} is returned.
WebhookLoad(p) ==
    /\ whk[p].pc = "idle"
    /\ LoopFree
    /\ payments[p].status # "none"
    /\ dresp = NoResponse
    /\ IF HookApplies(payments[p].status)
       THEN /\ whk' = [whk EXCEPT ![p].pc = "loaded",
                                  ![p].snap = credits[payments[p].user_id]]
            /\ UNCHANGED dresp
       ELSE /\ dresp' = HTTP_200_OK
            /\ UNCHANGED whk
    /\ UNCHANGED <<credits, jobs, payments, now, req, pl, wd, ran, env, ledger, refunds>>
    /\ UNCHANGED <<rx, nw, sidevars>>

\* The payment is completed and the credits are added, in one commit.
WebhookCommit(p) ==
    /\ whk[p].pc = "loaded"
    /\ LET u == payments[p].user_id
           n == payments[p].credits_purchased
       IN  /\ payments' = [payments EXCEPT ![p].status = "completed"]
           /\ credits' = [credits EXCEPT ![u] = whk[p].snap + n]
           /\ ledger' = [ledger EXCEPT ![u] = @ + n]
    /\ whk' = [whk EXCEPT ![p] = [IdleHook EXCEPT !.added = whk[p].added + 1]]
    /\ UNCHANGED <<jobs, now, req, pl, wd, ran, env, refunds>>
    /\ dresp = NoResponse
    /\ UNCHANGED <<dresp, rx, nw, sidevars>>

\* The answer to a delivery that found nothing to do goes out.
WebhookReturn ==
    /\ dresp = HTTP_200_OK
    /\ dresp' = NoResponse
    /\ UNCHANGED <<credits, jobs, payments, now, req, pl, wd, ran, whk, env, ledger, refunds,
                   rx, nw, sidevars>>

\* ------------------------------------------------------------------- Next
\* A delete and the return of its response are taken as one uninterrupted
\* step of the event loop (every other step waits for dresp = NoResponse):
\* what another thread does in between it can as well do afterwards.
Next ==
    \/ Tick
    \/ \E r \in Reqs : ReqCheck(r)
    \/ \E r \in Reqs : ReqCommit(r)
    \/ \E j \in Reqs : PipeStart(j)
    \/ \E j \in Reqs : PipeRun(j)
    \/ \E j \in Reqs : PipeCommit(j)
    \/ \E j \in Reqs : PipeNotify(j)
    \/ \E j \in Reqs : PipeExceptLoad(j)
    \/ \E j \in Reqs : PipeExceptCommit(j)
    \/ \E j \in Reqs : Delete(j)
    \/ DeleteReturn
    \/ \E p \in Pays : Checkout(p)
    \/ \E p \in Pays : WebhookLoad(p)
    \/ \E p \in Pays : WebhookCommit(p)
    \/ WebhookReturn

Spec == Init /\ [][Next]_vars

TypeOK ==
    /\ credits \in [Users -> Int]
    /\ \A j \in Reqs : jobs[j].status \in {"none", "pending", "processing", "completed", "failed"}
    /\ now \in 0..MaxTime

\* ===================================================== the retry executors
\* search_web.py (search_with_retry) and fetch_news.py (retry_wrapper).
\* Time is counted in tenths of a second.
ExecScripts == {"search_web.py", "fetch_news.py"}

\* The provider functions each script wraps in its executor.
FuncsOf(script) ==
    IF script = "search_web.py"
    THEN {"search_ddgs", "search_fallback"}
    ELSE {"fetch_news_ddg", "fetch_news_google_rss"}

\* What the network does to one provider call.
NetOutcomes == {"results", "empty", "timeout", "http5xx", "http404"}
\* The outcomes that are not a non-empty result.
NetFailures == NetOutcomes \ {"results"}

\* The providers with their own try/except: they print the error and return
\* the (empty) list built so far.  The DDGS providers let it propagate.
Catching == {"search_fallback", "fetch_news_google_rss"}

\* What the provider hands to the executor: a non-empty list, [], or an
\* exception.
Provider(func, net) ==
    IF net = "results" THEN "results"
    ELSE IF net = "empty" \/ func \in Catching THEN "[]"
    ELSE "raise"

RECURSIVE Pow2(_)
Pow2(k) == IF k = 0 THEN 1 ELSE 2 * Pow2(k - 1)

\* Mutant: the delay is not capped.
BackoffDelay_NoCap(attempt) == BASE_DELAY * Pow2(attempt)

\* delay = min(BASE_DELAY * (2 ** attempt), MAX_DELAY), in seconds
BackoffDelay(attempt) == Min(BASE_DELAY * Pow2(attempt), MAX_DELAY)

\* exponential_backoff: delay + jitter, in tenths of a second, the jitter
\* being pct percent of the delay.
exponential_backoff(attempt, pct) ==
    10 * BackoffDelay(attempt) + (BackoffDelay(attempt) * pct) \div 10

\* Mutant: one attempt more than configured.
MoreAttempts_OneMore(attempt, n) == attempt <= n

\* for attempt in range(n)
MoreAttempts(attempt, n) == attempt < n

\* Mutant: a non-empty result is treated like an empty one.
IsNonEmpty_Never(r) == FALSE

\* if results: return results
IsNonEmpty(r) == r = "results"

\* Mutant: retry_wrapper reads the global the flag has set.
MaxAttempts_Global(script, flag) == flag

\* The attempts an executor call makes.  search_with_retry reads the global
\* MAX_RETRIES, which main has set from --retries.  retry_wrapper takes
\* max_retries=MAX_RETRIES, a default bound when the function is defined, and
\* fetch_news never passes max_retries.
MaxAttempts(script, flag) ==
    IF script = "search_web.py" THEN flag ELSE MAX_RETRIES

\* main: parse --retries, set the global.
RxMain ==
    /\ rx.pc = "idle"
    /\ \E script \in ExecScripts, flag \in 0..MaxRetriesFlag :
          rx' = [IdleRetry EXCEPT !.pc = "main", !.script = script, !.flag = flag]
    /\ UNCHANGED <<appvars, nw, sidevars>>

\* The script calls its executor on a provider.  firstOk is the first call
\* on which the network would give the provider a non-empty result.
RxInvoke ==
    /\ rx.pc = "main"
    /\ \E func \in FuncsOf(rx.script), k \in 1..(MaxRetriesFlag + 1) :
          rx' = [rx EXCEPT !.pc = "loop", !.func = func, !.firstOk = k,
                           !.n = MaxAttempts(rx.script, rx.flag)]
    /\ UNCHANGED <<appvars, nw, sidevars>>

\* One pass of the loop body up to the sleep.
RxCall ==
    /\ rx.pc = "loop"
    /\ MoreAttempts(rx.attempt, rx.n)
    /\ \E net \in NetOutcomes :
          /\ (net = "results") = (rx.calls + 1 >= rx.firstOk)
          /\ LET r == Provider(rx.func, net)
                 c == [rx EXCEPT !.calls = @ + 1, !.perm = @ \/ net = "http404"]
             IN  rx' = IF IsNonEmpty(r)
                       THEN [c EXCEPT !.pc = "done", !.result = c.calls]
                       ELSE IF c.attempt < c.n - 1
                       THEN [c EXCEPT !.pc = "sleep"]
                       ELSE [c EXCEPT !.attempt = @ + 1]
    /\ UNCHANGED <<appvars, nw, sidevars>>

\* time.sleep(exponential_backoff(attempt)), then the next pass.
RxSleep ==
    /\ rx.pc = "sleep"
    /\ \E pct \in JitterPercents :
          rx' = [rx EXCEPT !.pc = "loop", !.attempt = @ + 1, !.sleeps = @ + 1,
                           !.prev = rx.last, !.prevDelay = rx.lastDelay,
                           !.last = exponential_backoff(rx.attempt, pct),
                           !.lastDelay = BackoffDelay(rx.attempt)]
    /\ UNCHANGED <<appvars, nw, sidevars>>

\* The loop is over: return [].
RxReturn ==
    /\ rx.pc = "loop"
    /\ ~MoreAttempts(rx.attempt, rx.n)
    /\ rx' = [rx EXCEPT !.pc = "done", !.result = 0]
    /\ UNCHANGED <<appvars, nw, sidevars>>

\* The web application at rest, while a script is looked at on its own.
AppQuiet ==
    /\ credits = [u \in Users |-> 0]
    /\ ledger = credits
    /\ jobs = [j \in Reqs |-> NoJob]
    /\ payments = [p \in Pays |-> NoPayment]
    /\ now = 0
    /\ req = [r \in Reqs |-> IdleReq]
    /\ pl = [j \in Reqs |-> IdleTask]
    /\ wd = [j \in Reqs |-> NoDir]
    /\ ran = [j \in Reqs |-> <<>>]
    /\ whk = [p \in Pays |-> IdleHook]
    /\ env = EnvOf({}, "missing", 0, FALSE)
    /\ refunds = [j \in Reqs |-> 0]
    /\ dresp = NoResponse

RetryInit == AppQuiet /\ rx = IdleRetry /\ nw = IdleNews /\ SideQuiet

RetryNext == RxMain \/ RxInvoke \/ RxCall \/ RxSleep \/ RxReturn

RetrySpec == RetryInit /\ [][RetryNext]_vars

\* ================================================================ fetch_news
\* Characters: ASCII letters, punctuation, a blank, and one letter outside
\* ASCII (CYRILLIC SMALL LETTER EN).
AsciiAlnum == {"a", "b", "c"}
Lower(c) == IF c = "A" THEN "a" ELSE c

\* Fifty times "a", and a longer title that starts with it.
Long50 == [i \in 1..TitleKeyLen |-> "a"]
Long51 == Long50 \o <<"b">>

Urls == {"", "u", "v"}
Titles == {<<>>, <<"a">>, <<"A", "!">>, <<"U+043D">>, Long50, Long51}

\* The "date" strings of the providers, by their shape, with the instant t
\* they denote: "" (no date), "%Y-%m-%dT%H:%M:%SZ" (NewsAPI),
\* "%Y-%m-%dT%H:%M:%S+00:00" (DuckDuckGo), "%a, %d %b %Y %H:%M:%S GMT"
\* (Google News RSS), and text no format matches.
MissingDate == [form |-> "", t |-> 0]
Dates ==
    << MissingDate,
       [form |-> "garbage", t |-> 0],
       [form |-> "iso_z", t |-> 1],
       [form |-> "iso_z", t |-> 3],
       [form |-> "iso_offset", t |-> 1],
       [form |-> "rfc822_gmt", t |-> 2] >>

\* The articles deduplicate_news is tried on.
DedupArticles == {[url |-> u, title |-> t, date |-> MissingDate] : u \in Urls, t \in Titles}

\* The articles the providers return to fetch_news: one per date string,
\* with a URL and a title (k times "a") of its own.
FeedArticles ==
    {[url |-> ToString(k), title |-> [i \in 1..k |-> "a"], date |-> Dates[k]] : k \in 1..Len(Dates)}

\* All sequences over S of length at most n.
SeqsUpTo(S, n) == UNION {[1..k -> S] : k \in 0..n}

\* re.sub(r'[^a-z0-9]', '', title.lower().strip())[:50]
TitleKey(title) ==
    LET low == [i \in 1..Len(title) |-> Lower(title[i])]
        kept == SelectSeq(Strip(low), LAMBDA c : c \in AsciiAlnum)
    IN  SubSeq(kept, 1, Min(Len(kept), TitleKeyLen))

\* Mutant: a URL met again is dropped from seen_urls.
SeenAfterSkip_Forget(seen, url) == seen \ {url}

\* "continue" leaves seen_urls as it is.
SeenAfterSkip(seen, url) == seen

\* The loop of deduplicate_news from article i on.
RECURSIVE DedupFrom(_, _, _, _, _)
DedupFrom(articles, i, seen_urls, seen_titles, unique) ==
    IF i > Len(articles) THEN unique
    ELSE LET url == articles[i].url
             title_key == TitleKey(articles[i].title)
         IN  IF url # "" /\ url \in seen_urls
             THEN DedupFrom(articles, i + 1, SeenAfterSkip(seen_urls, url), seen_titles, unique)
             ELSE IF title_key # <<>> /\ title_key \in seen_titles
             THEN DedupFrom(articles, i + 1, seen_urls, seen_titles, unique)
             ELSE DedupFrom(articles, i + 1,
                            IF url # "" THEN seen_urls \cup {url} ELSE seen_urls,
                            IF title_key # <<>> THEN seen_titles \cup {title_key} ELSE seen_titles,
                            Append(unique, articles[i]))

deduplicate_news(articles) == DedupFrom(articles, 1, {}, {}, <<>>)

\* datetime.min
DatetimeMin == [aware |-> FALSE, t |-> 0]

\* parse_date_flexible: the datetime strptime / fromisoformat build.  The
\* literal "Z" of the first format gives a naive datetime; %z gives an aware
\* one ("GMT" is replaced by "+0000" first, which only %z matches); no date
\* and no matching format give datetime.min, which is naive.
parse_date_flexible(d) ==
    CASE d.form = "" -> DatetimeMin
      [] d.form = "iso_z" -> [aware |-> FALSE, t |-> d.t]
      [] d.form = "iso_offset" -> [aware |-> TRUE, t |-> d.t]
      [] d.form = "rfc822_gmt" -> [aware |-> TRUE, t |-> d.t]
      [] OTHER -> DatetimeMin

SortKey(a) == parse_date_flexible(a.date)

\* Comparing a naive with an aware datetime raises TypeError, and a sort of
\* two or more keys of both kinds has to compare one of each.
SortRaises(list) ==
    \E i, j \in 1..Len(list) : SortKey(list[i]).aware # SortKey(list[j]).aware

\* list.sort(key=..., reverse=True): stable, greatest key first.
RECURSIVE InsertDesc(_, _)
InsertDesc(sorted, a) ==
    IF sorted = <<>> THEN <<a>>
    ELSE IF SortKey(Head(sorted)).t >= SortKey(a).t
         THEN <<Head(sorted)>> \o InsertDesc(Tail(sorted), a)
         ELSE <<a>> \o sorted

RECURSIVE SortDesc(_)
SortDesc(list) ==
    IF list = <<>> THEN <<>>
    ELSE InsertDesc(SortDesc(SubSeq(list, 1, Len(list) - 1)), list[Len(list)])

\* Mutant: the slice is max_results * 3.
TruncateLimit_Triple(max_results) == max_results * 3

\* all_results[:max_results * 2]
TruncateLimit(max_results) == max_results * 2

\* deduplicate_news applied to a list of articles.
NwDedupOnce ==
    /\ nw.pc = "idle"
    /\ \E L \in SeqsUpTo(DedupArticles, MaxArticles) :
          nw' = [nw EXCEPT !.pc = "once", !.articles = L, !.once = deduplicate_news(L)]
    /\ UNCHANGED <<appvars, rx, sidevars>>

\* deduplicate_news applied to its own output.
NwDedupTwice ==
    /\ nw.pc = "once"
    /\ nw' = [nw EXCEPT !.pc = "twice", !.twice = deduplicate_news(nw.once)]
    /\ UNCHANGED <<appvars, rx, sidevars>>

\* fetch_news up to the merge: each provider gives at most max_results
\* articles (retry_wrapper gives [] for a provider that failed).
NwFetch ==
    /\ nw.pc = "idle"
    /\ \E n \in 0..MaxResults :
          \E ddg, google, newsapi \in SeqsUpTo(FeedArticles, n) :
             nw' = [nw EXCEPT !.pc = "merged", !.max_results = n,
                              !.all = ddg \o google \o newsapi]
    /\ UNCHANGED <<appvars, rx, sidevars>>

\* all_results = deduplicate_news(all_results)
NwDeduplicate ==
    /\ nw.pc = "merged"
    /\ nw' = [nw EXCEPT !.pc = "unique", !.all = deduplicate_news(nw.all)]
    /\ UNCHANGED <<appvars, rx, sidevars>>

\* all_results.sort(...): the exception, if any, leaves fetch_news.
NwSort ==
    /\ nw.pc = "unique"
    /\ nw' = IF SortRaises(nw.all)
             THEN [nw EXCEPT !.pc = "raised"]
             ELSE [nw EXCEPT !.pc = "sorted", !.all = SortDesc(nw.all)]
    /\ UNCHANGED <<appvars, rx, sidevars>>

\* The returned dict: num_results and the truncated articles.
NwReturn ==
    /\ nw.pc = "sorted"
    /\ nw' = [nw EXCEPT !.pc = "returned", !.num_results = Len(nw.all),
                        !.out = SubSeq(nw.all, 1, Min(Len(nw.all), TruncateLimit(nw.max_results)))]
    /\ UNCHANGED <<appvars, rx, sidevars>>

NewsInit == AppQuiet /\ rx = IdleRetry /\ nw = IdleNews /\ SideQuiet

NewsNext ==
    \/ NwDedupOnce \/ NwDedupTwice
    \/ NwFetch \/ NwDeduplicate \/ NwSort \/ NwReturn

NewsSpec == NewsInit /\ [][NewsNext]_vars

\* ================================================== access to research jobs
\* get_research_job, download_report and delete_research_job, asked by any
\* caller for any job.  The rows are those a deployment can hold: jobs of
\* either caller in every status.
JobStatuses == {"pending", "processing", "completed", "failed"}

\* A row of owner u in status st.
RowOf(u, st) ==
    [NoJob EXCEPT !.status = st, !.user_id = u, !.target = <<"a">>,
                  !.target_type = "person", !.depth = "quick",
                  !.credits_used = credit_cost_quick,
                  !.report_path = IF st = "completed" THEN "REPORT.html" ELSE "",
                  !.error_message = IF st = "failed" THEN "Failed to generate report" ELSE "",
                  !.created_at = 0]

AccessRows == {NoJob} \cup {RowOf(u, st) : u \in Callers, st \in JobStatuses}

\* The directory of a job that has been started; the report file of a
\* completed job is in it unless it was lost.
DirOf(row, lost) ==
    IF row.status \in {"none", "pending"} THEN NoDir
    ELSE [exists |-> TRUE, pages |-> 0,
          files |-> {"01_search_results.json"} \cup
                    (IF row.report_path # "" /\ ~lost THEN {row.report_path} ELSE {})]

\* The token of a download request: none, one that does not decode, one of
\* a user whose row is gone, or the token of a caller.
DownloadTokens == {"none", "invalid", "gone"} \cup Callers

\* Mutant: the job is looked up by its id alone.
JobOf_AnyOwner(u, j) == jobs[j].status # "none"

\* db.query(ResearchJob).filter(ResearchJob.id == job_id,
\*                              ResearchJob.user_id == current_user.id).first()
JobOf(u, j) == jobs[j].status # "none" /\ jobs[j].user_id = u

\* get_research_job: 404 if the caller has no such job, else the job's fields.
GetBy(u, j) ==
    /\ rd = IdleRead /\ dresp = NoResponse
    /\ rd' = [op |-> "get", caller |-> u, job |-> j, owner |-> jobs[j].user_id,
              code |-> IF JobOf(u, j) THEN HTTP_200_OK ELSE HTTP_404_NOT_FOUND,
              disclosed |-> IF JobOf(u, j) THEN {j} ELSE {}]
    /\ UNCHANGED <<appvars, rx, nw, au, fin, sw>>

\* The status download_report answers with.
DownloadCode(tok, j) ==
    IF tok \notin Callers THEN HTTP_401_UNAUTHORIZED
    ELSE IF ~JobOf(tok, j) THEN HTTP_404_NOT_FOUND
    ELSE IF jobs[j].status # "completed" THEN HTTP_400_BAD_REQUEST
    ELSE IF jobs[j].report_path = "" \/ jobs[j].report_path \notin wd[j].files
    THEN HTTP_404_NOT_FOUND
    ELSE HTTP_200_OK

\* download_report: the token names the caller; the report file is sent only
\* for a completed job of the caller whose file exists.
DownloadBy(tok, j) ==
    /\ rd = IdleRead /\ dresp = NoResponse
    /\ rd' = [op |-> "download", caller |-> tok, job |-> j, owner |-> jobs[j].user_id,
              code |-> DownloadCode(tok, j),
              disclosed |-> IF DownloadCode(tok, j) = HTTP_200_OK THEN {j} ELSE {}]
    /\ UNCHANGED <<appvars, rx, nw, au, fin, sw>>

\* The response of a get or a download goes out.
ReadReturn ==
    /\ rd # IdleRead
    /\ rd' = IdleRead
    /\ UNCHANGED <<appvars, rx, nw, au, fin, sw>>

\* delete_research_job while no read is being answered.
AccessDelete(j) == rd = IdleRead /\ Delete(j)

AccessInit ==
    /\ credits = [u \in Users |-> 0]
    /\ ledger = credits
    /\ jobs \in [Reqs -> AccessRows]
    /\ \E lost \in BOOLEAN : wd = [j \in Reqs |-> DirOf(jobs[j], lost)]
    /\ payments = [p \in Pays |-> NoPayment]
    /\ now = 0
    /\ req = [r \in Reqs |-> IdleReq]
    /\ pl = [j \in Reqs |-> IdleTask]
    /\ ran = [j \in Reqs |-> <<>>]
    /\ whk = [p \in Pays |-> IdleHook]
    /\ env = EnvOf({}, "missing", 0, FALSE)
    /\ refunds = [j \in Reqs |-> 0]
    /\ dresp = NoResponse
    /\ rx = IdleRetry /\ nw = IdleNews
    /\ SideQuiet

AccessNext ==
    \/ \E u \in Callers, j \in Reqs : GetBy(u, j)
    \/ \E tok \in DownloadTokens, j \in Reqs : DownloadBy(tok, j)
    \/ ReadReturn
    \/ \E j \in Reqs : AccessDelete(j)
    \/ DeleteReturn

AccessSpec == AccessInit /\ [][AccessNext]_vars

\* ======================================================= fetch_financials.py
\* One run of the script: main, search_ticker, fetch_financials.
\* A quote of the Yahoo search answer: its quoteType, its symbol, and whether
\* its name shares a word with the company name ("none": both name fields
\* are null, so .lower() raises inside the try of search_ticker).
QuoteKinds ==
    { [quoteType |-> "EQUITY", symbol |-> "ACME", name |-> "match"],
      [quoteType |-> "EQUITY", symbol |-> "OTHR", name |-> "other"],
      [quoteType |-> "ETF", symbol |-> "ACMF", name |-> "match"],
      [quoteType |-> "EQUITY", symbol |-> "", name |-> "match"],
      [quoteType |-> "ETF", symbol |-> "NONE", name |-> "none"] }

QuoteLists == UNION { [1..n -> QuoteKinds] : n \in 0..MaxQuotes }

\* What requests.get does in search_ticker.
SearchNets == {"ok", "status", "exception"}

\* What yfinance gives fetch_financials for a ticker.
QuoteFetches == {"data", "nodata", "exception"}

\* How the script is given its input.
InputModes == {"args", "stdin", "stdin_bad"}

NotFound == [found |-> FALSE, ticker |-> ""]

\* The loop over the quotes: the name is lowered before the type is looked
\* at; the first equity whose name shares a word is returned.
RECURSIVE ScanQuotes(_, _)
ScanQuotes(quotes, i) ==
    IF i > Len(quotes) THEN NotFound
    ELSE IF quotes[i].name = "none" THEN NotFound
    ELSE IF quotes[i].quoteType # "EQUITY" THEN ScanQuotes(quotes, i + 1)
    ELSE IF quotes[i].name = "match" THEN [found |-> TRUE, ticker |-> quotes[i].symbol]
    ELSE ScanQuotes(quotes, i + 1)

\* search_ticker: None without requests, on a status other than 200, on any
\* exception, on an empty quote list and when no equity matches.
search_ticker(hasRequests, net, quotes) ==
    IF ~hasRequests \/ net # "ok" THEN NotFound
    ELSE ScanQuotes(quotes, 1)

\* fetch_financials(ticker): every failure is returned as a dict.
fetch_financials(ticker, fetch) ==
    IF fetch = "data" THEN [success |-> TRUE, error |-> "", ticker |-> ticker]
    ELSE IF fetch = "nodata"
    THEN [success |-> FALSE, error |-> "Ticker not found or no data available", ticker |-> ticker]
    ELSE [success |-> FALSE, error |-> "str(e)", ticker |-> ticker]

\* Mutant: the company name is used when no ticker was resolved.
NoTicker_Never(ticker) == FALSE

\* if not ticker
NoTicker(ticker) == ticker = ""

\* main reads its input: --ticker / --company, or a JSON object on stdin
\* (json.load raises on anything else).
FinMain ==
    /\ fin.pc = "idle"
    /\ \E mode \in InputModes, t \in {"", "AAPL"}, c \in {"", "acme"},
          hasRequests \in BOOLEAN, net \in SearchNets, quotes \in QuoteLists :
          fin' = IF mode = "stdin_bad"
                 THEN [IdleFin EXCEPT !.pc = "exit", !.mode = mode, !.raised = TRUE,
                                      !.exit = 1]
                 ELSE [IdleFin EXCEPT !.pc = "parsed", !.mode = mode, !.arg = t,
                                      !.ticker = t, !.company = c,
                                      !.requests = hasRequests, !.net = net,
                                      !.quotes = quotes]
    /\ UNCHANGED <<appvars, rx, nw, rd, au, sw>>

\* if company_name and not ticker: search_ticker(company_name)
FinSearch ==
    /\ fin.pc = "parsed"
    /\ fin' = IF fin.company # "" /\ fin.ticker = ""
              THEN LET res == search_ticker(fin.requests, fin.net, fin.quotes)
                   IN  [fin EXCEPT !.pc = "resolved", !.searched = TRUE,
                                   !.search_result = res,
                                   !.ticker = IF res.found THEN res.ticker ELSE @]
              ELSE [fin EXCEPT !.pc = "resolved"]
    /\ UNCHANGED <<appvars, rx, nw, rd, au, sw>>

\* The result: the error dict when there is no ticker, else fetch_financials.
FinBuild ==
    /\ fin.pc = "resolved"
    /\ \E fetch \in QuoteFetches :
          fin' = IF NoTicker(fin.ticker)
                 THEN [fin EXCEPT !.pc = "built",
                          !.result = [success |-> FALSE, ticker |-> "",
                              error |-> "No ticker found - company may be private or not publicly traded"]]
                 ELSE [fin EXCEPT !.pc = "built", !.fetched = @ + 1,
                                  !.result = fetch_financials(fin.ticker, fetch)]
    /\ UNCHANGED <<appvars, rx, nw, rd, au, sw>>

\* The result is written out; the exit code is 1 if it is not a success.
FinExit ==
    /\ fin.pc = "built"
    /\ fin' = [fin EXCEPT !.pc = "exit", !.exit = IF fin.result.success THEN 0 ELSE 1]
    /\ UNCHANGED <<appvars, rx, nw, rd, au, sw>>

FinInit == AppQuiet /\ rx = IdleRetry /\ nw = IdleNews /\ SideQuiet

FinNext == FinMain \/ FinSearch \/ FinBuild \/ FinExit

FinSpec == FinInit /\ [][FinNext]_vars

\* ================================================================ search_web
\* One call of search_web: the primary provider in its executor, then the
\* fallback in its executor.  A result list is <<>> or holds one item naming
\* the provider and the attempt that produced it.

\* search_with_retry(func, ...) against a network that answers the k-th call
\* with nets[k]: the calls made and the list returned.
RECURSIVE RetryFrom(_, _, _, _)
RetryFrom(func, nets, attempt, calls) ==
    IF attempt >= MAX_RETRIES THEN [calls |-> calls, results |-> <<>>]
    ELSE LET made == Append(calls, [func |-> func, net |-> nets[attempt + 1]])
         IN  IF IsNonEmpty(Provider(func, nets[attempt + 1]))
             THEN [calls |-> made, results |-> <<[from |-> func, attempt |-> attempt]>>]
             ELSE RetryFrom(func, nets, attempt + 1, made)

search_with_retry(func, nets) == RetryFrom(func, nets, 0, <<>>)

NetRuns == [1..MAX_RETRIES -> NetOutcomes]

\* Mutant: the fallback is tried whenever its libraries are there.
UseFallback_Always(results, has_requests) == has_requests

\* if not results and HAS_REQUESTS
UseFallback(results, has_requests) == results = <<>> /\ has_requests

\* search_web is called in a process that could or could not import the
\* DDGS library and requests with bs4.
SwCall ==
    /\ sw.pc = "idle"
    /\ \E d, r \in BOOLEAN :
          sw' = [IdleSearch EXCEPT !.pc = "primary", !.HAS_DDGS = d, !.HAS_REQUESTS = r]
    /\ UNCHANGED <<appvars, rx, nw, rd, au, fin>>

\* if HAS_DDGS: results = search_with_retry(search_ddgs, ...)
SwPrimary ==
    /\ sw.pc = "primary"
    /\ \E nets \in NetRuns :
          LET r == search_with_retry("search_ddgs", nets)
          IN  sw' = IF sw.HAS_DDGS
                    THEN [sw EXCEPT !.pc = "fallback", !.calls = r.calls,
                                    !.primary = r.results, !.results = r.results]
                    ELSE [sw EXCEPT !.pc = "fallback"]
    /\ UNCHANGED <<appvars, rx, nw, rd, au, fin>>

\* if not results and HAS_REQUESTS: results = search_with_retry(search_fallback, ...)
SwFallback ==
    /\ sw.pc = "fallback"
    /\ \E nets \in NetRuns :
          LET r == search_with_retry("search_fallback", nets)
          IN  sw' = IF UseFallback(sw.results, sw.HAS_REQUESTS)
                    THEN [sw EXCEPT !.pc = "return", !.calls = @ \o r.calls,
                                    !.results = r.results]
                    ELSE [sw EXCEPT !.pc = "return"]
    /\ UNCHANGED <<appvars, rx, nw, rd, au, fin>>

\* return results
SwReturn ==
    /\ sw.pc = "return"
    /\ sw' = [sw EXCEPT !.pc = "done"]
    /\ UNCHANGED <<appvars, rx, nw, rd, au, fin>>

SearchInit == AppQuiet /\ rx = IdleRetry /\ nw = IdleNews /\ SideQuiet

SearchNext == SwCall \/ SwPrimary \/ SwFallback \/ SwReturn

SearchSpec == SearchInit /\ [][SearchNext]_vars

\* ===================================== forgot_password, reset_password, Cache
\* Time is counted in minutes.  Redis, when a client exists, can fail any
\* single command; Cache then uses the memory store for that call.

\* The account of an email address: "ua" is active, "ud" is disabled.
UserByEmail(email) ==
    CASE email = "a@x" -> [id |-> "ua", is_active |-> TRUE]
      [] email = "d@x" -> [id |-> "ud", is_active |-> FALSE]
      [] OTHER -> [id |-> "", is_active |-> FALSE]

\* An entry that is there and has not expired (time.time() < expiry in the
\* memory store, the TTL of SETEX in Redis).
Live(entry, clock) == entry.expiry # NULL /\ clock < entry.expiry

\* get_redis: the client that exists, or a new one if redis_url is set and
\* connecting and the ping succeed (a ConnectionError leaves None).
get_redis(a, conn) == a.client \/ (a.url /\ conn)

\* Cache.set: SETEX in Redis; without a client, or if the command raises,
\* the memory store.
CacheSet(a, t, value, ttl, conn, fault) ==
    LET entry == [value |-> value, expiry |-> a.clock + ttl]
    IN  IF get_redis(a, conn) /\ ~fault
        THEN [a EXCEPT !.client = TRUE, !.redis[t] = entry]
        ELSE [a EXCEPT !.client = get_redis(a, conn), !.mem[t] = entry]

\* Cache.get: what Redis holds (None if nothing; the memory store is then
\* not asked); without a client, or if the command raises, _memory_get,
\* which drops an expired entry.
CacheGet(a, t, conn, fault) ==
    IF get_redis(a, conn) /\ ~fault
    THEN [value |-> IF Live(a.redis[t], a.clock) THEN a.redis[t].value ELSE "",
          a |-> [a EXCEPT !.client = TRUE,
                          !.redis[t] = IF Live(@, a.clock) THEN @ ELSE NoEntry]]
    ELSE [value |-> IF Live(a.mem[t], a.clock) THEN a.mem[t].value ELSE "",
          a |-> [a EXCEPT !.client = get_redis(a, conn),
                          !.mem[t] = IF Live(@, a.clock) THEN @ ELSE NoEntry]]

\* Cache.delete: DEL in Redis (the memory store is then left alone); without
\* a client, or if the command raises, _memory_delete.
CacheDelete(a, t, conn, fault) ==
    IF get_redis(a, conn) /\ ~fault
    THEN [a EXCEPT !.client = TRUE, !.redis[t] = NoEntry]
    ELSE [a EXCEPT !.client = get_redis(a, conn), !.mem[t] = NoEntry]

\* Mutant: an unknown or disabled address is told so.
ForgotResponse_Reveals(found) ==
    IF found THEN [code |-> HTTP_200_OK, body |-> "reset link has been sent"]
    ELSE [code |-> HTTP_404_NOT_FOUND, body |-> "no such account"]

\* return {"message": "If an account exists with that email, ..."}
ForgotResponse(found) == [code |-> HTTP_200_OK, body |-> "reset link has been sent"]

\* The clock of the auth service advances.
AuTick ==
    /\ au.clock + TickMinutes <= MaxMinutes
    /\ au' = [au EXCEPT !.clock = @ + TickMinutes]
    /\ UNCHANGED <<appvars, rx, nw, rd, fin, sw>>

\* forgot_password: for an active account a new token is stored for an hour
\* and mailed in the background; the answer is the same message.
Forgot(email) ==
    LET user == UserByEmail(email)
        found == user.id # "" /\ user.is_active
        r == ForgotResponse(found)
        answer == [op |-> "forgot", email |-> email, code |-> r.code, body |-> r.body]
    IN  /\ IF found
           THEN \E t \in Tokens, conn, fault \in BOOLEAN :
                   /\ au.issued[t] = NULL
                   /\ au' = [CacheSet(au, t, user.id, PASSWORD_RESET_EXPIRE_MINUTES, conn, fault)
                                EXCEPT !.issued[t] = au.clock, !.resp = answer]
           ELSE au' = [au EXCEPT !.resp = answer]
        /\ UNCHANGED <<appvars, rx, nw, rd, fin, sw>>

\* reset_password with token t: 400 if the cache has no user for it; else
\* the password is set and committed and the token is deleted.
Reset(t) ==
    /\ au.used[t] < MaxUses
    /\ \E conn1, fault1, conn2, fault2 \in BOOLEAN :
          LET g == CacheGet(au, t, conn1, fault1)
          IN  au' = IF g.value = ""
                    THEN [g.a EXCEPT !.resp = [op |-> "reset", email |-> "",
                                               code |-> HTTP_400_BAD_REQUEST,
                                               body |-> "Invalid or expired reset token"]]
                    ELSE [CacheDelete(g.a, t, conn2, fault2)
                            EXCEPT !.used[t] = @ + 1, !.accepted[t] = au.clock,
                                   !.resp = [op |-> "reset", email |-> "",
                                             code |-> HTTP_200_OK,
                                             body |-> "Password has been reset successfully"]]
    /\ UNCHANGED <<appvars, rx, nw, rd, fin, sw>>

\* A process with or without a redis_url.
AuthInit ==
    /\ AppQuiet /\ rx = IdleRetry /\ nw = IdleNews
    /\ rd = IdleRead /\ fin = IdleFin /\ sw = IdleSearch
    /\ \E url \in BOOLEAN : au = [IdleAuth EXCEPT !.url = url]

AuthNext ==
    \/ AuTick
    \/ \E email \in Emails : Forgot(email)
    \/ \E t \in Tokens : Reset(t)

AuthSpec == AuthInit /\ [][AuthNext]_vars

\* =================================================================== claims
\* No balance mutation other than those of job j has been committed.
Solo(j) ==
    /\ \A k \in Reqs \ {j} : req[k].resp # HTTP_201_CREATED
    /\ \A p \in Pays : payments[p].status # "completed"

HasReport(files) == "REPORT.html" \in files \/ "DOSSIER.md" \in files

LegalStep(a, b) ==
    \/ a = b
    \/ a = "none" /\ b = "pending"
    \/ a = "pending" /\ b = "processing"
    \/ a = "processing" /\ b \in Terminal
    \/ a \in Terminal /\ b = "none"

C2_LegalTransitions ==
    [][\A j \in Reqs : LegalStep(jobs[j].status, jobs'[j].status)]_vars

\* C3 (as claimed): once the persisted status of a job is completed or failed,
\* no step changes the row other than deleting it, and no step refunds it.
C3_TerminalImmutable ==
    [][\A j \in Reqs :
          jobs[j].status \in Terminal =>
              /\ jobs'[j] = jobs[j] \/ jobs'[j] = NoJob
              /\ refunds'[j] = refunds[j]]_vars

\* C4 (as claimed): no balance update is lost: the persisted balance is the
\* initial balance minus every committed debit plus every committed refund and
\* purchase.
C4_NoLostUpdate == \A u \in Users : credits[u] = ledger[u]

\* C5 (as claimed): two finished create_research_job requests of one caller
\* for the same target and target type, both made within the de-duplication
\* window (the clock has not reached it) and both with enough credits, are
\* answered by one 201 and one 409.
C5_DedupGuard ==
    \A r1, r2 \in Reqs :
        ( /\ r1 # r2
          /\ req[r1].pc = "done" /\ req[r2].pc = "done"
          /\ req[r1].user = req[r2].user
          /\ req[r1].target = req[r2].target
          /\ req[r1].target_type = req[r2].target_type
          /\ now < DUPLICATE_JOB_WINDOW_SECONDS
          /\ req[r1].resp # HTTP_402_PAYMENT_REQUIRED
          /\ req[r2].resp # HTTP_402_PAYMENT_REQUIRED )
        => {req[r1].resp, req[r2].resp} = {HTTP_201_CREATED, HTTP_409_CONFLICT}

\* C6: the refund and the failed status are committed together: a failed job
\* has been refunded once, a pending or processing job not at all; when no
\* other balance mutation was committed, the balance of the owner of a pending
\* or processing job is still without the credits charged.
C6_RefundAtomic ==
    \A j \in Reqs :
        /\ jobs[j].status = "failed" => refunds[j] = 1
        /\ jobs[j].status \in {"pending", "processing"} => refunds[j] = 0
        /\ (Solo(j) /\ jobs[j].status \in {"pending", "processing"}) =>
               credits[jobs[j].user_id] = req[j].cur - jobs[j].credits_used

C6_Witness ==
    \E j \in Reqs :
        /\ jobs[j].status = "failed" /\ refunds[j] = 1 /\ ~pl[j].raised
        /\ jobs[j].error_message = "Failed to generate report"

\* C7: when all stages have run and no exception escaped, the dossier
\* generator has been called, and the job is completed if and only if
\* REPORT.html or DOSSIER.md exists in its working directory; otherwise it is
\* failed and refunded.
C7_CompletedIffReport ==
    \A j \in Reqs :
        (pl[j].pc \in {"notify", "done"} /\ ~pl[j].raised /\ jobs[j].status # "none") =>
            /\ \E i \in 1..Len(ran[j]) : ran[j][i] \in Generators
            /\ jobs[j].status = "completed" <=> HasReport(wd[j].files)
            /\ ~HasReport(wd[j].files) => (jobs[j].status = "failed" /\ refunds[j] = 1)

\* A completed job in which, of the stages before the generator, only the
\* search produced output.
C7_Witness ==
    \E j \in Reqs :
        /\ pl[j].pc = "done" /\ ~pl[j].raised /\ jobs[j].status = "completed"
        /\ wd[j].files \ {"DOSSIER.md", "REPORT.html"} = {"01_search_results.json"}
        /\ wd[j].pages = 0

\* C8: a request whose caller has fewer credits than the depth costs is
\* answered 402 in the step that checks it, which creates no job row, schedules
\* no task and leaves every balance as it was; no job and no task of that
\* request exist afterwards.
C8_InsufficientRejected ==
    /\ [][\A r \in Reqs :
            ( /\ req[r].pc = "idle" /\ req'[r].pc # "idle"
              /\ req'[r].cur < get_credit_cost(req'[r].depth) )
            => /\ req'[r].pc = "done"
               /\ req'[r].resp = HTTP_402_PAYMENT_REQUIRED
               /\ jobs' = jobs /\ pl' = pl /\ credits' = credits]_vars
    /\ [](\A r \in Reqs :
            req[r].resp = HTTP_402_PAYMENT_REQUIRED =>
                jobs[r] = NoJob /\ pl[r].pc = "idle")

C8_Witness ==
    \E r \in Reqs :
        /\ req[r].pc = "done" /\ req[r].resp = HTTP_402_PAYMENT_REQUIRED
        /\ req[r].cur < get_credit_cost(req[r].depth)

\* The scripts a run calls besides the page fetches and the HTML conversion,
\* in order.
FixedStages(tt, llm) ==
    <<"search_web.py", "fetch_news.py", "fetch_wikipedia.py">>
    \o (IF tt = "company" THEN <<"fetch_financials.py", "fetch_sec_edgar.py">> ELSE <<>>)
    \o <<"fetch_social.py", "analyze_research.py">>
    \o <<IF llm THEN "generate_dossier_llm.py" ELSE "generate_dossier.py">>

IsFixedStage(s) == s \notin {"fetch_webpage.py", "md_to_styled_html.py"}

\* C9: whatever scripts failed, a task that is at the final commit has
\* called every stage of its target type and the dossier generator, in order,
\* and the status it commits is the one the report artifacts decide.
C9_StageFailureTolerated ==
    \A j \in Reqs :
        pl[j].pc = "commit" =>
            /\ SelectSeq(ran[j], IsFixedStage) = FixedStages(req[j].target_type, env.llm)
            /\ pl[j].st = (IF HasReport(wd[j].files) THEN "completed" ELSE "failed")

\* A job is being completed although a data-gathering script failed.
C9_Witness ==
    \E j \in Reqs :
        /\ pl[j].pc = "commit" /\ pl[j].st = "completed"
        /\ \E i \in 1..Len(ran[j]) :
              ran[j][i] \in OtherGather \cup {"search_web.py"} /\ env.out[ran[j][i]] # "ok"

\* A step of the pipeline task of job j.
PipeStep(j) ==
    \/ PipeStart(j) \/ PipeRun(j) \/ PipeCommit(j) \/ PipeNotify(j)
    \/ PipeExceptLoad(j) \/ PipeExceptCommit(j)

\* The worker thread keeps running a task it has been given, and every
\* subprocess returns or times out.
FairSpec ==
    /\ Spec
    /\ \A j \in Reqs : WF_vars(PipeStep(j))
    /\ WF_vars(DeleteReturn)
    /\ WF_vars(WebhookReturn)

\* C10 (as claimed): a job whose pipeline task has started is eventually
\* completed or failed, whatever is raised in run_research_pipeline.
C10_EventuallyTerminal ==
    \A j \in Reqs : (j \in Running) ~> (jobs[j].status \in Terminal)

\* C20: a delete of a pending or processing job is answered 400 and changes
\* neither the job rows nor the working directories; a delete answered 204
\* was of a completed or failed job of the caller, and nothing else removes
\* a job row.
C20_DeleteRefusedWhileRunning ==
    [][ /\ dresp' # NoResponse =>
              \A u \in Callers, j \in Reqs :
                 DeleteBy(u, j) =>
                    /\ (jobs[j].user_id = u /\ jobs[j].status \in {"pending", "processing"})
                          => dresp' = HTTP_400_BAD_REQUEST
                    /\ dresp' # HTTP_204_NO_CONTENT => jobs' = jobs /\ wd' = wd
                    /\ dresp' = HTTP_204_NO_CONTENT
                          => jobs[j].status \in Terminal /\ jobs[j].user_id = u
        /\ dresp' # HTTP_204_NO_CONTENT =>
              \A j \in Reqs : jobs[j].status # "none" => jobs'[j].status # "none"
      ]_vars

\* A delete has just been refused while a job of the caller was unfinished.
C20_Witness ==
    /\ dresp = HTTP_400_BAD_REQUEST
    /\ \E j \in Reqs : jobs[j].status \in {"pending", "processing"} /\ wd[j].exists

\* C11: the executor never calls the wrapped function more than n times, n
\* being its maximum attempt count, and when no call gave a non-empty result
\* it ends by returning the empty list.
C11_AtMostNAttempts ==
    /\ rx.calls <= Max0(rx.n)
    /\ (rx.pc = "done" /\ rx.firstOk > rx.n) => rx.result = 0 /\ rx.calls = Max0(rx.n)

\* All n >= 2 attempts have failed, after sleeps, and [] is returned.
C11_Witness ==
    rx.pc = "done" /\ rx.result = 0 /\ rx.n >= 2 /\ rx.calls = rx.n /\ rx.sleeps = rx.n - 1

\* C12: when the first non-empty result comes on call k <= n, the executor
\* returns that result after exactly k calls, and never calls again.
C12_ReturnsFirstNonEmpty ==
    /\ rx.calls <= rx.firstOk
    /\ (rx.pc = "done" /\ rx.firstOk <= rx.n) => rx.result = rx.firstOk /\ rx.calls = rx.firstOk

\* Two failures, then a non-empty result on the third of three attempts.
C12_Witness ==
    rx.pc = "done" /\ rx.n = 3 /\ rx.firstOk = 3 /\ rx.calls = 3 /\ rx.result = 3

\* C13 (as claimed): each sleep is at least as long as the one before it and
\* no sleep is longer than the cap.
C13_SleepsMonotoneCapped ==
    /\ rx.sleeps >= 1 => rx.last <= 10 * MAX_DELAY
    /\ rx.sleeps >= 2 => rx.prev <= rx.last

\* C13: the delay before jitter doubles from BASE_DELAY until it meets the
\* cap and stays there; a sleep is that delay plus at most a tenth of it (so
\* at most 1.1 times the cap); and a sleep is at least as long as the one
\* before it whenever the earlier delay was below the cap.
C13_BackoffDelay ==
    /\ rx.sleeps >= 1 =>
          /\ rx.lastDelay <= MAX_DELAY
          /\ rx.lastDelay = MAX_DELAY \/ rx.lastDelay = BASE_DELAY * Pow2(rx.sleeps - 1)
          /\ 10 * rx.lastDelay <= rx.last
          /\ rx.last <= 11 * rx.lastDelay
    /\ rx.sleeps >= 2 =>
          /\ rx.prevDelay <= rx.lastDelay
          /\ rx.prevDelay < MAX_DELAY => rx.prev <= rx.last

\* Two sleeps at the cap, the first with the full jitter and the second
\* with none.
C13_Witness ==
    /\ rx.sleeps >= 2
    /\ rx.prevDelay = MAX_DELAY /\ rx.lastDelay = MAX_DELAY
    /\ rx.prev = 11 * MAX_DELAY /\ rx.last = 10 * MAX_DELAY

\* C14 (as claimed): when every attempt has failed, the provider has been
\* called as many times as --retries says.
C14_RetriesFlagHonoured ==
    (rx.pc = "done" /\ rx.result = 0) => rx.calls = rx.flag

\* C15 (as claimed): once a provider call has met HTTP 404, the executor
\* neither sleeps nor calls the provider again.
C15_PermanentNotRetried ==
    rx.perm => rx.pc = "done" \/ (rx.pc = "loop" /\ ~MoreAttempts(rx.attempt, rx.n))

\* C16: deduplicate_news applied to its own output returns it unchanged.
C16_DedupIdempotent ==
    nw.pc = "twice" => nw.twice = nw.once

\* A list with an article without URL and title, from which the first pass
\* has removed a duplicate.
C16_Witness ==
    /\ nw.pc = "twice"
    /\ Len(nw.once) < Len(nw.articles)
    /\ \E k \in 1..Len(nw.once) : nw.once[k].url = "" /\ nw.once[k].title = <<>>

\* The positions of list whose article has URL u / title fingerprint key.
WithUrl(list, u) == {k \in 1..Len(list) : list[k].url = u}
WithKey(list, key) == {k \in 1..Len(list) : TitleKey(list[k].title) = key}

\* C17 (as claimed): of input articles with one URL at most one is in the
\* output, and so is of input articles with different URLs whose titles have
\* one fingerprint.  (Articles without URL, respectively without title, are
\* left aside, and so is which of the articles is kept.)
C17_SameUrlOrTitleCollapsed ==
    nw.pc = "once" =>
       \A i, j \in 1..Len(nw.articles) :
          LET a == nw.articles[i]
              b == nw.articles[j]
          IN  /\ (i < j /\ a.url = b.url /\ a.url # "") =>
                    Cardinality(WithUrl(nw.once, a.url)) <= 1
              /\ (i < j /\ a.url # b.url /\ a.title # <<>> /\ b.title # <<>>
                       /\ TitleKey(a.title) = TitleKey(b.title)) =>
                    Cardinality(WithKey(nw.once, TitleKey(a.title))) <= 1

\* The datetime.min keys come after all others, and the others are in
\* descending order.
NewestFirst(list) ==
    \A i, j \in 1..Len(list) :
       i < j => /\ SortKey(list[i]).t >= SortKey(list[j]).t
                /\ SortKey(list[i]) = DatetimeMin => SortKey(list[j]) = DatetimeMin

\* C18 (as claimed): fetch_news does not raise, and returns its articles
\* newest first with the undated ones last.
C18_SortedNewestFirst ==
    /\ nw.pc # "raised"
    /\ nw.pc = "returned" => NewestFirst(nw.out)

\* C19 (as claimed): fetch_news returns at most max_results articles.
C19_AtMostMaxResults ==
    nw.pc = "returned" => Len(nw.out) <= nw.max_results

\* C19: fetch_news returns at most twice max_results articles (max_results
\* not negative), the first ones of the sorted list, while num_results counts
\* the whole list.
C19_AtMostTwiceMaxResults ==
    nw.pc = "returned" =>
       /\ Len(nw.out) <= 2 * nw.max_results
       /\ Len(nw.out) <= nw.num_results
       /\ nw.out = SubSeq(nw.all, 1, Len(nw.out))

\* More than max_results articles are returned, and one was cut off.
C19_Witness ==
    /\ nw.pc = "returned"
    /\ Len(nw.out) > nw.max_results
    /\ Len(nw.out) < nw.num_results

\* C21: after delete_research_job has succeeded for a job (its row is gone),
\* the job's working directory and the artifacts in it no longer exist,
\* whether the job ended completed or failed.
C21_DeleteRemovesDirectory ==
    \A j \in Reqs : jobs[j].status = "none" => ~wd[j].exists

\* C22: a notification whose email call returned false or raised ends the
\* task without entering the except clause, and the step changes no job row
\* (status, report path, error message, completion time) and no balance.
C22_EmailFailureChangesNothing ==
    [][\A j \in Reqs :
          (pl[j].pc = "notify" /\ pl'[j].mail \in {"false", "raised"}) =>
              /\ pl'[j].pc = "done" /\ ~pl'[j].raised
              /\ jobs' = jobs /\ credits' = credits /\ refunds' = refunds]_vars

\* A completed job whose email call raised: still completed, not refunded.
C22_Witness ==
    \E j \in Reqs :
        /\ pl[j].pc = "done" /\ pl[j].mail = "raised"
        /\ jobs[j].status = "completed" /\ jobs[j].report_path # ""
        /\ refunds[j] = 0

\* C26: within one job the scripts are called one after the other in the
\* fixed order search, page fetches, news, encyclopedia, financials, filings,
\* social, analysis, dossier, HTML conversion (only the page fetch repeats),
\* and no stage reads an artifact that a stage called after it writes; this
\* is looked at when the task has made its calls and is at its final commit.
C26_FixedOrderNoBackReference ==
    \A j \in Reqs : pl[j].pc = "commit" => \A i, k \in 1..Len(ran[j]) :
        i < k =>
            /\ StageRank(ran[j][i]) <= StageRank(ran[j][k])
            /\ (StageRank(ran[j][i]) = StageRank(ran[j][k])) => ran[j][i] = "fetch_webpage.py"
            /\ Writes(ran[j][k]) \notin Reads(ran[j][i])

\* A company run that fetched pages and went through to the HTML conversion.
C26_Witness ==
    \E j \in Reqs :
        /\ Len(ran[j]) >= 10
        /\ ran[j][Len(ran[j])] = "md_to_styled_html.py"
        /\ \E i \in 1..Len(ran[j]) : ran[j][i] = "fetch_sec_edgar.py"
        /\ \E i \in 1..Len(ran[j]) : ran[j][i] = "fetch_webpage.py"

\* C28: the credits of a payment are added to the balance at most once,
\* however often checkout.session.completed is delivered for it: once they
\* are added the payment is completed, and a delivery that is answered
\* without a commit finds it completed and credited once.
C28_CreditedAtMostOnce ==
    \A p \in Pays :
        /\ whk[p].added <= 1
        /\ whk[p].added = 1 => payments[p].status = "completed"
        /\ dresp = HTTP_200_OK => payments[p].status = "completed" /\ whk[p].added = 1

\* A second delivery for a completed payment has just been answered.
C28_Witness ==
    /\ dresp = HTTP_200_OK
    /\ \E p \in Pays : payments[p].status = "completed" /\ whk[p].added = 1

\* C29 (as claimed): no persisted balance is negative, and whenever a
\* create_research_job is about to commit its debit the persisted balance
\* of the caller is at least the cost of the job.
C29_DebitCoveredAtCommit ==
    /\ \A u \in Users : credits[u] >= 0
    /\ \A r \in Reqs :
          req[r].pc = "checked" => credits[req[r].user] >= get_credit_cost(req[r].depth)

\* C24 (as claimed): a get of a job by a caller who is not its owner is
\* answered 403 and discloses none of the job's fields.
C24_NonOwnerGetForbidden ==
    (rd.op = "get" /\ rd.owner \notin {"", rd.caller}) =>
        rd.code = 403 /\ rd.disclosed = {}

\* C24, the part that holds: no get or download discloses a job to a caller
\* who is not its owner, and a job row is removed only by a delete of its
\* owner.
C24_NoCrossUserAccess ==
    [][ /\ rd'.disclosed # {} => rd'.owner = rd'.caller
        /\ \A j \in Reqs :
              (jobs[j].status # "none" /\ jobs'[j].status = "none")
                  => DeleteBy(jobs[j].user_id, j) ]_vars

\* C23: a run given a company name and no ticker, whose ticker search
\* resolved none, ends with a result of success false and an error message,
\* without an exception and without a call of fetch_financials.
C23_NoTickerFailsCleanly ==
    (fin.pc \in {"built", "exit"} /\ fin.searched /\ fin.ticker = "") =>
        /\ ~fin.result.success
        /\ fin.result.error # ""
        /\ fin.fetched = 0
        /\ ~fin.raised

\* The search answered with quotes, none of them an equity of that name, and
\* the run has ended.
C23_Witness ==
    /\ fin.pc = "exit" /\ fin.searched /\ fin.ticker = ""
    /\ fin.net = "ok" /\ fin.requests /\ Len(fin.quotes) = MaxQuotes
    /\ ~fin.result.success /\ fin.fetched = 0

\* Whether search_web has called the fallback provider.
FallbackCalled == \E i \in 1..Len(sw.calls) : sw.calls[i].func = "search_fallback"

C30_TokenSingleUseTimeLimited ==
    \A t \in Tokens :
        /\ au.used[t] <= 1
        /\ au.accepted[t] # NULL =>
              au.accepted[t] < au.issued[t] + PASSWORD_RESET_EXPIRE_MINUTES

====
